---------------------------- MODULE Spec2Model ----------------------------
(***************************************************************************)
(* The HDF5 track database of ml_tools/trackdatabase.py: the lock-guarded  *)
(* session HDF5Manager and the operations of TrackDatabase, run by several *)
(* processes that share hdf5_lock and one database file.                   *)
(*                                                                         *)
(* The file is a tree: the group 'clips' holds one group per clip, a clip  *)
(* group holds attributes and one dataset per track, a dataset holds an    *)
(* int16 array and attributes.  Every statement of an operation that       *)
(* touches the file is one step, so that an exception can leave the with   *)
(* block between any two of them.                                          *)
(*                                                                         *)
(* Spec starts when every process has constructed its TrackDatabase.       *)
(* CtorSpec adds TrackDatabase.__init__, which creates a missing database  *)
(* file.  LegacySpec is the pickle store of track-extractor.py, an         *)
(* unrelated TrackDatabase class whose save() replaces one snapshot file.  *)
(***************************************************************************)
EXTENDS Integers, Sequences, FiniteSets, TLC

\* ------------------------------------------------------------------ bounds

NumProcs == 2
NumClips == 2
NumTracks == 2
\* operations started in one run
MaxOps == 3
\* I/O failures (OSError) the medium produces in one run
MaxFaults == 1
\* the arrays handed to add_track have one frame less than a chunk or
\* FrameSpan frames more
FrameSpan == 1

\* ------------------------------------------------------- program constants

\* chunks = (9, 1, height, width)
ChunkFrames == 9

Procs == 1..NumProcs
NoProc == 0
Clips == 1..NumClips
Tracks == 1..NumTracks

\* ------------------------------------------------------------------ values

\* Python values are written as strings: "None", "True", numbers and text.
PyNone == "None"
PyTrue == "True"
Falsy == {"None", "False", "0", "0.0", ""}

\* x or default
PyOr(x, default) == IF x \in Falsy THEN default ELSE x

\* d.get(key, default)
DictGet(d, key, default) == IF key \in DOMAIN d THEN d[key] ELSE default

\* datetime.isoformat()
IsoFormat(dt) ==
    CASE dt = "datetime(2017,11,1,15,8,43)" -> "2017-11-01T15:08:43"
      [] dt = "datetime(2017,11,1,15,9,2)" -> "2017-11-01T15:09:02"
      [] OTHER -> "1970-01-01T00:00:00"

\* numpy's cast of a sample to dtype=np.int16
ToInt16(v) == ((v + 32768) % 65536) - 32768

\* an attribute value h5py can store: None has no HDF5 type (TypeError)
Storable(v) == v # PyNone

EmptyDict == [k \in {} |-> ""]

\* d[key] = value
DictSet(d, key, value) ==
    [k \in DOMAIN d \cup {key} |-> IF k = key THEN value ELSE d[k]]

\* del d[key]
DictDel(d, key) == [k \in DOMAIN d \ {key} |-> d[k]]

\* ------------------------------------------------------------------ inputs

NoTracker == [none |-> TRUE]

\* tracker.stats of the trackers handed to create_clip: no optional key, every
\* key, keys present with the value None or 0
StatsChoices ==
    { EmptyDict,
      [k \in {"confidence", "trap", "event", "average_background_delta",
              "mean_temp", "max_temp", "min_temp"} |->
          CASE k = "confidence" -> "0.9"
            [] k = "trap" -> "trap7"
            [] k = "event" -> "possum"
            [] k = "average_background_delta" -> "3"
            [] k = "mean_temp" -> "2900"
            [] k = "max_temp" -> "3100"
            [] k = "min_temp" -> "2800"],
      [k \in {"confidence", "trap", "event"} |->
          IF k = "confidence" THEN "0" ELSE PyNone],
      [k \in {"mean_temp"} |-> PyNone] }

Trackers ==
    { [source_file |-> "20171101-150843-akaroa03.cptv",
       video_start_time |-> "datetime(2017,11,1,15,8,43)",
       threshold |-> "50",
       stats |-> s] : s \in StatsChoices }

FrameCounts == {ChunkFrames - 1, ChunkFrames + FrameSpan}

\* the sample of frame i: the int16 range with both of its ends
Sample(i) ==
    CASE i % 3 = 0 -> 32767
      [] i % 3 = 1 -> -32768
      [] OTHER -> i

\* a numpy array of shape (frames, channels, height, width); a frame is
\* written as one sample
Arrays ==
    { [shape |-> <<n, 1, 1, 1>>, data |-> [i \in 1..n |-> Sample(i)]] :
        n \in FrameCounts }

NoTrack == [none |-> TRUE]

\* the region of frame i of a track: left, top, right, bottom, mass
Region(i) == [left |-> i, top |-> i + 1, right |-> i + 20, bottom |-> i + 21,
              mass |-> 40000 + i]

\* track records with a bounds_history of n regions; stats is the named tuple
\* get_stats() returns, as (name, value) pairs
TrackRecords ==
    { [id |-> "1", tag |-> "possum",
       start_time |-> "datetime(2017,11,1,15,8,43)",
       end_time |-> "datetime(2017,11,1,15,9,2)",
       stats |-> << <<"max_offset", "12">> >>,
       bounds_history |-> [i \in 1..n |-> Region(i)]] :
         n \in {ChunkFrames, ChunkFrames + FrameSpan} }

\* a slice bound: None, or an integer
NoBound == [none |-> TRUE, v |-> 0]
Bound(v) == [none |-> FALSE, v |-> v]

\* the (start_frame, end_frame) pairs handed to get_track: no bounds, a range
\* inside the track, an open start, a range beyond the track, an empty range
SliceBounds ==
    { <<NoBound, NoBound>>, <<Bound(2), Bound(5)>>, <<NoBound, Bound(3)>>,
      <<Bound(100), Bound(200)>>, <<Bound(5), Bound(2)>> }

\* the arguments of a call; an operation reads the ones it has.  start_frame
\* and end_frame have their default None.
Call(name, clip_id, track_id, tracker, overwrite, track_data, track) ==
    [name |-> name, clip_id |-> clip_id, track_id |-> track_id,
     tracker |-> tracker, overwrite |-> overwrite,
     track_data |-> track_data, track |-> track,
     start_frame |-> NoBound, end_frame |-> NoBound]

NoData == [shape |-> <<>>, data |-> <<>>]
NoCall == Call("", 0, 0, NoTracker, FALSE, NoData, NoTrack)

NoErr == [kind |-> "", at |-> ""]
NoRet == [kind |-> "none", val |-> <<>>]
NoSnapshot == [valid |-> FALSE, clips |-> EmptyDict]

\* track-extractor.py: no file at a path
NoFile == [exists |-> FALSE, complete |-> FALSE, revision |-> 0, clips |-> {}]

\* track-extractor.py, TrackDatabase.__init__: self.clips = {}, self.revision = 0;
\* sawFile is the outcome of the test of line 59 in the save() under way
NewDatabase == [revision |-> 0, clips |-> {}, sawFile |-> FALSE]

\* ------------------------------------------------------------------- state

VARIABLES
    hdf5_lock,   \* the process holding hdf5_lock, or NoProc
    fileOpen,    \* the processes whose HDF5Manager.f is an open file
    clips,       \* f['clips']: clip id -> [attrs, tracks]
    pc,          \* per process: the statement it is at
    call,        \* per process: the operation it runs and its arguments
    exc,         \* per process: the exception raised in the with block, and where
    ret,         \* per process: the value the operation returns
    pre,         \* per process: f['clips'] when its session opened
    opCount,     \* operations started
    faults,      \* I/O failures so far
    createCalled, \* clip ids create_clip was called on
    completed,   \* (clip, track) -> the array of the add_track that returned
                 \* for it, for the datasets in the file
    interrupted, \* (clip, track) datasets in the file whose add_track raised
                 \* in its array copy or its attribute writes
    onDisk,      \* the database file: "missing", "empty" (an HDF5 file
                 \* without the group 'clips') or "clips"
    unrepaired,  \* clip ids whose create_clip raised after it created the
                 \* node, with no create_clip(overwrite=True) completed since
    disk,        \* track-extractor.py: the pickle file at TrackDatabase.filename
    tmp,         \* track-extractor.py: the file at filename + ".tmp"
    mem,         \* track-extractor.py: per process, the TrackDatabase object
    saved        \* track-extractor.py: (process, revision loaded) of the
                 \* save() calls that replaced the file

\* the state of the pickle store of track-extractor.py
legacyVars == <<disk, tmp, mem, saved>>

vars == <<hdf5_lock, fileOpen, clips, pc, call, exc, ret, pre, opCount,
          faults, createCalled, completed, interrupted, onDisk, unrepaired,
          legacyVars>>

\* ----------------------------------------------------------- the file tree

\* clips.create_group(clip_id)
NewGroup == [attrs |-> EmptyDict, tracks |-> EmptyDict]

\* has_clip without the test of the 'finished' attribute
HasNode(cl, clip_id) == clip_id \in DOMAIN cl

\* clip_id in clips and 'finished' in clips[clip_id].attrs
HasRecord(cl, clip_id) ==
    clip_id \in DOMAIN cl /\ "finished" \in DOMAIN cl[clip_id].attrs

\* clips[clip_id].attrs[key] = value
SetClipAttr(cl, clip_id, key, value) ==
    [cl EXCEPT ![clip_id].attrs = DictSet(@, key, value)]

\* clip.attrs['finished'] = True
MarkFinished(cl, clip_id) == SetClipAttr(cl, clip_id, "finished", PyTrue)

\* an overwrite that deletes every clip of the group
DeleteAllForOverwrite(cl, clip_id, overwrite) ==
    IF overwrite /\ clip_id \in DOMAIN cl THEN EmptyDict ELSE cl

\* if overwrite and clip_id in clips: del clips[clip_id]
DeleteForOverwrite(cl, clip_id, overwrite) ==
    IF overwrite /\ clip_id \in DOMAIN cl THEN DictDel(cl, clip_id) ELSE cl

\* the keys create_clip writes from a tracker, in the order it writes them
ClipAttrOrder ==
    <<"filename", "start_time", "threshold", "confidence", "trap", "event",
      "average_background_delta", "mean_temp", "max_temp", "min_temp">>

\* create_clip with the empty string as the default of the numeric keys
ClipAttrValueMixed(tracker, key) ==
    CASE key = "filename" -> tracker.source_file
      [] key = "start_time" -> IsoFormat(tracker.video_start_time)
      [] key = "threshold" -> tracker.threshold
      [] key = "confidence" ->
            PyOr(DictGet(tracker.stats, "confidence", "0.0"), "0.0")
      [] OTHER -> PyOr(DictGet(tracker.stats, key, ""), "")

\* the value create_clip computes for a key
ClipAttrValue(tracker, key) ==
    CASE key = "filename" -> tracker.source_file
      [] key = "start_time" -> IsoFormat(tracker.video_start_time)
      [] key = "threshold" -> tracker.threshold
      [] key = "confidence" ->
            PyOr(DictGet(tracker.stats, "confidence", "0.0"), "0.0")
      [] key = "trap" -> PyOr(DictGet(tracker.stats, "trap", ""), "")
      [] key = "event" -> PyOr(DictGet(tracker.stats, "event", ""), "")
      [] OTHER -> DictGet(tracker.stats, key, "0")

\* the first n assignments of lines 78-87
WriteClipAttrs(cl, clip_id, tracker, n) ==
    LET written == {ClipAttrOrder[i] : i \in 1..n}
    IN [cl EXCEPT ![clip_id].attrs =
           [k \in DOMAIN @ \cup written |->
               IF k \in written THEN ClipAttrValue(tracker, k) ELSE @[k]]]

\* how many of the assignments of lines 78-87 run before one raises
StorablePrefix(tracker) ==
    LET bad == {i \in 1..Len(ClipAttrOrder) :
                   ~Storable(ClipAttrValue(tracker, ClipAttrOrder[i]))}
    IN IF bad = {} THEN Len(ClipAttrOrder)
       ELSE (CHOOSE i \in bad : \A j \in bad : i <= j) - 1

\* clip_node.create_dataset(track_id, dims, chunks=chunks, ..., dtype=np.int16):
\* a dataset of the given shape, filled with 0, without attributes
NewDataset(dims) ==
    [shape |-> dims, data |-> [i \in 1..dims[1] |-> 0], attrs |-> EmptyDict]

\* add_track that writes 'finished' as it creates the dataset, before the data
CreateDatasetMarked(cl, clip_id, track_id, dims) ==
    MarkFinished(
        [cl EXCEPT ![clip_id].tracks = DictSet(@, track_id, NewDataset(dims))],
        clip_id)

\* dset = clip_node.create_dataset(track_id, dims, ...)
CreateDataset(cl, clip_id, track_id, dims) ==
    [cl EXCEPT ![clip_id].tracks = DictSet(@, track_id, NewDataset(dims))]

\* h5py refuses a chunk shape greater than the data shape in a dimension
ChunksFit(dims) == ChunkFrames <= dims[1] /\ 1 <= dims[2]

\* dset[:,:,:,:] = track_data, the first n frames of it
CopyFrames(dset, track_data, n) ==
    [dset EXCEPT !.data =
        [i \in 1..Len(@) |-> IF i <= n THEN ToInt16(track_data.data[i]) ELSE @[i]]]

\* numpy's cast to dtype=np.int32; the masses of the model lie in the int32
\* range, where the cast keeps the value
ToInt32(v) == v

\* the keys add_track writes from a track record, in the order it writes them
TrackAttrOrder(track) ==
    <<"id", "tag", "start_time", "end_time">> \o
    [i \in 1..Len(track.stats) |-> track.stats[i][1]] \o
    <<"mass_history", "bounds_history">>

\* the value add_track computes for a key
TrackAttrValue(track, key) ==
    CASE key = "id" -> track.id
      [] key = "tag" -> track.tag
      [] key = "start_time" -> IsoFormat(track.start_time)
      [] key = "end_time" -> IsoFormat(track.end_time)
      [] key = "mass_history" ->
            [i \in 1..Len(track.bounds_history) |->
                ToInt32(track.bounds_history[i].mass)]
      [] key = "bounds_history" ->
            [i \in 1..Len(track.bounds_history) |->
                <<ToInt16(track.bounds_history[i].left),
                  ToInt16(track.bounds_history[i].top),
                  ToInt16(track.bounds_history[i].right),
                  ToInt16(track.bounds_history[i].bottom)>>]
      [] OTHER ->
            LET i == CHOOSE j \in 1..Len(track.stats) : track.stats[j][1] = key
            IN track.stats[i][2]

\* the first n assignments of lines 190-200 on clips[clip_id][track_id]
WriteTrackAttrs(cl, clip_id, track_id, track, n) ==
    LET order == TrackAttrOrder(track)
        written == {order[i] : i \in 1..n}
    IN [cl EXCEPT ![clip_id].tracks[track_id].attrs =
           [k \in DOMAIN @ \cup written |->
               IF k \in written THEN TrackAttrValue(track, k) ELSE @[k]]]

\* the elements of a set of integers in increasing order: h5py iterates a
\* group by name
RECURSIVE Sorted(_)
Sorted(S) ==
    IF S = {} THEN <<>>
    ELSE LET m == CHOOSE x \in S : \A y \in S : x <= y
         IN <<m>> \o Sorted(S \ {m})

\* [(clip, track) for track in clips[clip]] for one clip
TracksOfClip(cl, clip) ==
    LET ts == Sorted(DOMAIN cl[clip].tracks)
    IN [i \in 1..Len(ts) |-> <<clip, ts[i]>>]

RECURSIVE AllTrackIdsFrom(_, _)
AllTrackIdsFrom(cl, cs) ==
    IF cs = <<>> THEN <<>>
    ELSE TracksOfClip(cl, Head(cs)) \o AllTrackIdsFrom(cl, Tail(cs))

\* the list get_all_track_ids builds
AllTrackIds(cl) == AllTrackIdsFrom(cl, Sorted(DOMAIN cl))

\* the names of the fields of a dataset's dtype: np.int16 is not a compound
\* type and has none
FieldNames(dset) == {}

\* ------------------------------------------------------------------- start

\* the array an earlier run stored in the database
ExistingArray ==
    CHOOSE a \in Arrays : a.shape[1] = ChunkFrames + FrameSpan

\* f['clips'] of a database file an earlier run left: the last clip, created
\* without a tracker, with one track added without a track record
ExistingClips ==
    LET c == NumClips
        created == MarkFinished(DictSet(EmptyDict, c, NewGroup), c)
        added == CreateDataset(created, c, 1, ExistingArray.shape)
    IN MarkFinished(
           [added EXCEPT ![c].tracks[1] =
               CopyFrames(@, ExistingArray, ExistingArray.shape[1])], c)

\* TrackDatabase.__init__: a missing file is created with an empty group
\* 'clips'; an existing file is used as it is
Init ==
    /\ hdf5_lock = NoProc
    /\ fileOpen = {}
    /\ \/ /\ clips = EmptyDict
          /\ createCalled = {}
          /\ completed = EmptyDict
       \/ /\ clips = ExistingClips
          /\ createCalled = {NumClips}
          /\ completed = DictSet(EmptyDict, <<NumClips, 1>>, ExistingArray)
    /\ pc = [p \in Procs |-> "idle"]
    /\ call = [p \in Procs |-> NoCall]
    /\ exc = [p \in Procs |-> NoErr]
    /\ ret = [p \in Procs |-> NoRet]
    /\ pre = [p \in Procs |-> NoSnapshot]
    /\ opCount = 0
    /\ faults = 0
    /\ interrupted = {}
    /\ onDisk = "clips"
    /\ unrepaired = {}
    /\ disk = NoFile
    /\ tmp = NoFile
    /\ mem = [p \in Procs |-> NewDatabase]
    /\ saved = {}

\* ------------------------------------------------------------- HDF5Manager

\* hdf5_lock left at the module's own Lock in every process of a pool: the
\* lock of another process never blocks the caller
CanAcquireOwnLock(p) == TRUE

\* hdf5_lock.acquire() returns: the lock is free
CanAcquire(p) == hdf5_lock = NoProc

\* the first statement of an operation's with block
FirstStep(name) ==
    CASE name = "create_clip" -> "cc_delete"
      [] name = "add_track" -> "at_create"
      [] OTHER -> name

\* A process calls an operation; HDF5Manager.__enter__ takes the lock.  The
\* call blocks while the lock is held.
Enter(p, c) ==
    /\ pc[p] = "idle"
    /\ opCount < MaxOps
    /\ CanAcquire(p)
    /\ hdf5_lock' = p
    /\ pc' = [pc EXCEPT ![p] = "open"]
    /\ call' = [call EXCEPT ![p] = c]
    /\ opCount' = opCount + 1
    /\ createCalled' = IF c.name = "create_clip"
                       THEN createCalled \cup {c.clip_id} ELSE createCalled
    /\ UNCHANGED <<fileOpen, clips, exc, ret, pre, faults, completed,
                   interrupted>>
    /\ UNCHANGED <<onDisk, unrepaired, legacyVars>>

\* __enter__: self.f = h5py.File(self.db, self.mode)
Open(p) ==
    /\ pc[p] = "open"
    /\ fileOpen' = fileOpen \cup {p}
    /\ pre' = [pre EXCEPT ![p] = [valid |-> TRUE, clips |-> clips]]
    /\ pc' = [pc EXCEPT ![p] = FirstStep(call[p].name)]
    /\ UNCHANGED <<hdf5_lock, clips, call, exc, ret, opCount, faults,
                   createCalled, completed, interrupted>>
    /\ UNCHANGED <<onDisk, unrepaired, legacyVars>>

\* the state of a process between two operations
EndOperation(p) ==
    /\ pc' = [pc EXCEPT ![p] = "idle"]
    /\ call' = [call EXCEPT ![p] = NoCall]
    /\ exc' = [exc EXCEPT ![p] = NoErr]
    /\ ret' = [ret EXCEPT ![p] = NoRet]
    /\ pre' = [pre EXCEPT ![p] = NoSnapshot]

\* __enter__: h5py.File raises (the file is missing, unreadable or corrupt).
\* The exception leaves __enter__, so __exit__ never runs.
OpenFail(p) ==
    /\ pc[p] = "open"
    /\ faults < MaxFaults
    /\ faults' = faults + 1
    /\ EndOperation(p)
    /\ UNCHANGED <<hdf5_lock, fileOpen, clips, opCount, createCalled,
                   completed, interrupted>>
    /\ UNCHANGED <<onDisk, unrepaired, legacyVars>>

\* __exit__: self.f.close()
Close(p) ==
    /\ pc[p] = "exit"
    /\ fileOpen' = fileOpen \ {p}
    /\ pc' = [pc EXCEPT ![p] = "release"]
    /\ UNCHANGED <<hdf5_lock, clips, call, exc, ret, pre, opCount, faults,
                   createCalled, completed, interrupted>>
    /\ UNCHANGED <<onDisk, unrepaired, legacyVars>>

\* __exit__: self.f.close() raises; the file is closed or is left open
CloseFail(p) ==
    /\ pc[p] = "exit"
    /\ faults < MaxFaults
    /\ faults' = faults + 1
    /\ fileOpen' \in {fileOpen, fileOpen \ {p}}
    /\ EndOperation(p)
    /\ UNCHANGED <<hdf5_lock, clips, opCount, createCalled, completed,
                   interrupted>>
    /\ UNCHANGED <<onDisk, unrepaired, legacyVars>>

\* __exit__: hdf5_lock.release(), and the operation returns or raises
Release(p) ==
    /\ pc[p] = "release"
    /\ hdf5_lock' = NoProc
    /\ completed' = IF call[p].name = "add_track" /\ exc[p] = NoErr
                    THEN DictSet(completed,
                                 <<call[p].clip_id, call[p].track_id>>,
                                 call[p].track_data)
                    ELSE completed
    /\ EndOperation(p)
    /\ UNCHANGED <<fileOpen, clips, opCount, faults, createCalled, interrupted>>
    /\ UNCHANGED <<onDisk, unrepaired, legacyVars>>

\* a statement of the with block raises: control passes to __exit__
Raise(p, kind) ==
    /\ exc' = [exc EXCEPT ![p] = [kind |-> kind, at |-> pc[p]]]
    /\ pc' = [pc EXCEPT ![p] = "exit"]

\* a statement of the with block ends the block with a value
Return(p, kind, val) ==
    /\ ret' = [ret EXCEPT ![p] = [kind |-> kind, val |-> val]]
    /\ pc' = [pc EXCEPT ![p] = "exit"]
    /\ UNCHANGED exc

\* ------------------------------------------------------ the read operations

\* TrackDatabase.has_clip
has_clip(p) ==
    /\ pc[p] = "has_clip"
    /\ onDisk = "clips"
    /\ Return(p, "bool", HasRecord(clips, call[p].clip_id))
    /\ UNCHANGED <<hdf5_lock, fileOpen, clips, call, pre, opCount, faults,
                   createCalled, completed, interrupted>>
    /\ UNCHANGED <<onDisk, unrepaired, legacyVars>>

\* TrackDatabase.get_all_track_ids
get_all_track_ids(p) ==
    /\ pc[p] = "get_all_track_ids"
    /\ onDisk = "clips"
    /\ Return(p, "list", AllTrackIds(clips))
    /\ UNCHANGED <<hdf5_lock, fileOpen, clips, call, pre, opCount, faults,
                   createCalled, completed, interrupted>>
    /\ UNCHANGED <<onDisk, unrepaired, legacyVars>>

\* f['clips'][clip_id][track_id] names a dataset
HasTrack(cl, clip_id, track_id) ==
    clip_id \in DOMAIN cl /\ track_id \in DOMAIN cl[clip_id].tracks

\* TrackDatabase.get_track_meta
get_track_meta(p) ==
    /\ pc[p] = "get_track_meta"
    /\ onDisk = "clips"
    /\ LET c == call[p].clip_id
           t == call[p].track_id
       IN IF HasTrack(clips, c, t)
          THEN Return(p, "dict", clips[c].tracks[t].attrs)
          ELSE Raise(p, "KeyError") /\ UNCHANGED ret
    /\ UNCHANGED <<hdf5_lock, fileOpen, clips, call, pre, opCount, faults,
                   createCalled, completed, interrupted>>
    /\ UNCHANGED <<onDisk, unrepaired, legacyVars>>

\* TrackDatabase.get_clip_meta
get_clip_meta(p) ==
    /\ pc[p] = "get_clip_meta"
    /\ onDisk = "clips"
    /\ LET c == call[p].clip_id
       IN IF c \in DOMAIN clips
          THEN Return(p, "dict", clips[c].attrs)
          ELSE Raise(p, "KeyError") /\ UNCHANGED ret
    /\ UNCHANGED <<hdf5_lock, fileOpen, clips, call, pre, opCount, faults,
                   createCalled, completed, interrupted>>
    /\ UNCHANGED <<onDisk, unrepaired, legacyVars>>

\* the index a slice bound stands for in a sequence of n items: None is the
\* default, a negative bound counts from the end, and the result is clamped
SliceIndex(b, n, default) ==
    IF b.none THEN default
    ELSE LET i == IF b.v < 0 THEN b.v + n ELSE b.v
         IN IF i < 0 THEN 0 ELSE IF i > n THEN n ELSE i

\* dset[start_frame:end_frame]: the frames from start_frame up to, not
\* including, end_frame
PySlice(data, start_frame, end_frame) ==
    LET n == Len(data)
        s == SliceIndex(start_frame, n, 0)
        e == SliceIndex(end_frame, n, n)
    IN IF s >= e THEN <<>> ELSE SubSeq(data, s + 1, e)

\* TrackDatabase.get_track: track_node is the dataset clips[clip_id][track_id],
\* and track_node[str(track_id)] asks that dataset for the field of its dtype
\* named str(track_id)
get_track(p) ==
    /\ pc[p] = "get_track"
    /\ onDisk = "clips"
    /\ LET c == call[p].clip_id
           t == call[p].track_id
       IN IF ~HasTrack(clips, c, t)
          THEN Raise(p, "KeyError") /\ UNCHANGED ret
          ELSE IF t \notin FieldNames(clips[c].tracks[t])
          THEN Raise(p, "ValueError") /\ UNCHANGED ret
          ELSE Return(p, "array", PySlice(clips[c].tracks[t].data,
                                          call[p].start_frame, call[p].end_frame))
    /\ UNCHANGED <<hdf5_lock, fileOpen, clips, call, pre, opCount, faults,
                   createCalled, completed, interrupted>>
    /\ UNCHANGED <<onDisk, unrepaired, legacyVars>>

\* -------------------------------------------------------------- create_clip

\* clips = f['clips']; if overwrite and clip_id in clips: del clips[clip_id]
cc_delete(p) ==
    /\ pc[p] = "cc_delete"
    /\ onDisk = "clips"
    /\ LET c == call[p].clip_id
       IN /\ clips' = DeleteForOverwrite(clips, c, call[p].overwrite)
          /\ interrupted' = {x \in interrupted : x[1] \in DOMAIN clips'}
          /\ completed' = [x \in {y \in DOMAIN completed : y[1] \in DOMAIN clips'}
                              |-> completed[x]]
    /\ pc' = [pc EXCEPT ![p] = "cc_group"]
    /\ UNCHANGED <<hdf5_lock, fileOpen, call, exc, ret, pre, opCount,
                   faults, createCalled>>
    /\ UNCHANGED <<onDisk, unrepaired, legacyVars>>

\* after create_group: the attribute writes when a tracker is given
AfterGroup(tracker) == IF tracker # NoTracker THEN "cc_attrs" ELSE "cc_flush"

\* clip = clips.create_group(clip_id): ValueError when the name exists
cc_group(p) ==
    /\ pc[p] = "cc_group"
    /\ LET c == call[p].clip_id
       IN IF c \in DOMAIN clips
          THEN Raise(p, "ValueError") /\ UNCHANGED clips
          ELSE /\ clips' = DictSet(clips, c, NewGroup)
               /\ pc' = [pc EXCEPT ![p] = AfterGroup(call[p].tracker)]
               /\ UNCHANGED exc
    /\ UNCHANGED <<hdf5_lock, fileOpen, call, ret, pre, opCount, faults,
                   createCalled, completed, interrupted>>
    /\ UNCHANGED <<onDisk, unrepaired, legacyVars>>

\* lines 78-87, stats[key] = value for every key in turn: all of them are
\* written, or the first value that is None raises TypeError with the
\* attributes before it written
cc_attrs(p) ==
    /\ pc[p] = "cc_attrs"
    /\ LET c == call[p].clip_id
           n == StorablePrefix(call[p].tracker)
       IN /\ clips' = WriteClipAttrs(clips, c, call[p].tracker, n)
          /\ IF n = Len(ClipAttrOrder)
             THEN /\ pc' = [pc EXCEPT ![p] = "cc_flush"]
                  /\ UNCHANGED <<exc, unrepaired>>
             ELSE /\ Raise(p, "TypeError")
                  /\ unrepaired' = unrepaired \cup {c}
    /\ UNCHANGED <<hdf5_lock, fileOpen, call, ret, pre, opCount, faults,
                   createCalled, completed, interrupted>>
    /\ UNCHANGED <<onDisk, legacyVars>>

\* f.flush()
cc_flush(p) ==
    /\ pc[p] = "cc_flush"
    /\ pc' = [pc EXCEPT ![p] = "cc_finish"]
    /\ UNCHANGED <<hdf5_lock, fileOpen, clips, call, exc, ret, pre,
                   opCount, faults, createCalled, completed, interrupted>>
    /\ UNCHANGED <<onDisk, unrepaired, legacyVars>>

\* clip.attrs['finished'] = True
cc_finish(p) ==
    /\ pc[p] = "cc_finish"
    /\ clips' = MarkFinished(clips, call[p].clip_id)
    /\ unrepaired' = IF call[p].overwrite
                     THEN unrepaired \ {call[p].clip_id} ELSE unrepaired
    /\ Return(p, "None", <<>>)
    /\ UNCHANGED <<hdf5_lock, fileOpen, call, pre, opCount, faults,
                   createCalled, completed, interrupted>>
    /\ UNCHANGED <<onDisk, legacyVars>>

\* ---------------------------------------------------------------- add_track

\* create_dataset that replaces a dataset of the same name
DatasetRefusedByChunks(cl, clip_id, track_id, dims) == ~ChunksFit(dims)

\* create_dataset raises ValueError: the name exists, or the chunks do not fit
DatasetRefused(cl, clip_id, track_id, dims) ==
    track_id \in DOMAIN cl[clip_id].tracks \/ ~ChunksFit(dims)

\* after the array copy: the attribute writes when a track record is given
AfterCopy(track) == IF track # NoTrack THEN "at_attrs" ELSE "at_flush"

\* add_track with clips.require_group(clip_id): a clip that has no node gets
\* one
at_create_RequireGroup(p) ==
    /\ pc[p] = "at_create"
    /\ onDisk = "clips"
    /\ LET c == call[p].clip_id
           t == call[p].track_id
           dims == call[p].track_data.shape
           found == IF c \in DOMAIN clips THEN clips
                    ELSE DictSet(clips, c, NewGroup)
       IN IF DatasetRefused(found, c, t, dims)
          THEN Raise(p, "ValueError") /\ clips' = found
          ELSE /\ clips' = CreateDataset(found, c, t, dims)
               /\ pc' = [pc EXCEPT ![p] = "at_copy"]
               /\ UNCHANGED exc
    /\ UNCHANGED <<hdf5_lock, fileOpen, call, ret, pre, opCount, faults,
                   createCalled, completed, interrupted>>
    /\ UNCHANGED <<onDisk, unrepaired, legacyVars>>

\* clip_node = clips[clip_id]: KeyError when the clip has no node;
\* dset = clip_node.create_dataset(track_id, dims, ...)
at_create(p) ==
    /\ pc[p] = "at_create"
    /\ onDisk = "clips"
    /\ LET c == call[p].clip_id
           t == call[p].track_id
           dims == call[p].track_data.shape
       IN IF c \notin DOMAIN clips
          THEN Raise(p, "KeyError") /\ UNCHANGED clips
          ELSE IF DatasetRefused(clips, c, t, dims)
          THEN Raise(p, "ValueError") /\ UNCHANGED clips
          ELSE /\ clips' = CreateDataset(clips, c, t, dims)
               /\ pc' = [pc EXCEPT ![p] = "at_copy"]
               /\ UNCHANGED exc
    /\ UNCHANGED <<hdf5_lock, fileOpen, call, ret, pre, opCount, faults,
                   createCalled, completed, interrupted>>
    /\ UNCHANGED <<onDisk, unrepaired, legacyVars>>

\* dset[:,:,:,:] = track_data
at_copy(p) ==
    /\ pc[p] = "at_copy"
    /\ LET c == call[p].clip_id
           t == call[p].track_id
           data == call[p].track_data
       IN clips' = [clips EXCEPT ![c].tracks[t] =
                       CopyFrames(@, data, data.shape[1])]
    /\ pc' = [pc EXCEPT ![p] = AfterCopy(call[p].track)]
    /\ UNCHANGED <<hdf5_lock, fileOpen, call, exc, ret, pre, opCount, faults,
                   createCalled, completed, interrupted>>
    /\ UNCHANGED <<onDisk, unrepaired, legacyVars>>

\* lines 187-200: stats[key] = value for every key in turn
at_attrs(p) ==
    /\ pc[p] = "at_attrs"
    /\ LET c == call[p].clip_id
           t == call[p].track_id
           track == call[p].track
       IN clips' = WriteTrackAttrs(clips, c, t, track, Len(TrackAttrOrder(track)))
    /\ pc' = [pc EXCEPT ![p] = "at_flush"]
    /\ UNCHANGED <<hdf5_lock, fileOpen, call, exc, ret, pre, opCount, faults,
                   createCalled, completed, interrupted>>
    /\ UNCHANGED <<onDisk, unrepaired, legacyVars>>

\* f.flush()
at_flush(p) ==
    /\ pc[p] = "at_flush"
    /\ pc' = [pc EXCEPT ![p] = "at_finish"]
    /\ UNCHANGED <<hdf5_lock, fileOpen, clips, call, exc, ret, pre,
                   opCount, faults, createCalled, completed, interrupted>>
    /\ UNCHANGED <<onDisk, unrepaired, legacyVars>>

\* clip_node.attrs['finished'] = True
at_finish(p) ==
    /\ pc[p] = "at_finish"
    /\ clips' = MarkFinished(clips, call[p].clip_id)
    /\ Return(p, "None", <<>>)
    /\ UNCHANGED <<hdf5_lock, fileOpen, call, pre, opCount, faults,
                   createCalled, completed, interrupted>>
    /\ UNCHANGED <<onDisk, unrepaired, legacyVars>>

\* ------------------------------------------------------------------- faults

\* the statements of create_clip and add_track that write to the file
WriteSteps ==
    {"cc_delete", "cc_group", "cc_attrs", "cc_flush", "cc_finish",
     "at_create", "at_copy", "at_attrs", "at_flush", "at_finish"}

\* the statements of add_track between the creation of the dataset and the
\* end of its attribute writes
TrackWriteSteps == {"at_copy", "at_attrs"}

\* the statements of create_clip after the creation of the node
AfterNode == {"cc_attrs", "cc_flush", "cc_finish"}

\* A write statement raises OSError before it changes the file.
Fault(p) ==
    /\ pc[p] \in WriteSteps
    /\ faults < MaxFaults
    /\ faults' = faults + 1
    /\ Raise(p, "OSError")
    /\ interrupted' = IF pc[p] \in TrackWriteSteps
                      THEN interrupted \cup {<<call[p].clip_id, call[p].track_id>>}
                      ELSE interrupted
    /\ unrepaired' = IF pc[p] \in AfterNode
                     THEN unrepaired \cup {call[p].clip_id} ELSE unrepaired
    /\ UNCHANGED <<hdf5_lock, fileOpen, clips, call, ret, pre, opCount,
                   createCalled, completed>>
    /\ UNCHANGED <<onDisk, legacyVars>>

\* the frame counts an interrupted copy of frames frames can have written: the
\* data reaches the file one chunk of ChunkFrames frames at a time
PartialCopies(frames) ==
    {n \in 1..(frames - 1) : n % ChunkFrames = 0}

\* The array copy raises OSError after some chunks were written.
FaultInCopy(p) ==
    /\ pc[p] = "at_copy"
    /\ faults < MaxFaults
    /\ faults' = faults + 1
    /\ LET c == call[p].clip_id
           t == call[p].track_id
           data == call[p].track_data
       IN \E n \in PartialCopies(data.shape[1]) :
            clips' = [clips EXCEPT ![c].tracks[t] = CopyFrames(@, data, n)]
    /\ Raise(p, "OSError")
    /\ interrupted' = interrupted \cup {<<call[p].clip_id, call[p].track_id>>}
    /\ UNCHANGED <<hdf5_lock, fileOpen, call, ret, pre, opCount,
                   createCalled, completed>>
    /\ UNCHANGED <<onDisk, unrepaired, legacyVars>>

\* The attribute writes of create_clip raise OSError after n assignments.
FaultInClipAttrs(p) ==
    /\ pc[p] = "cc_attrs"
    /\ faults < MaxFaults
    /\ faults' = faults + 1
    /\ \E n \in 1..StorablePrefix(call[p].tracker) :
          /\ n < Len(ClipAttrOrder)
          /\ clips' = WriteClipAttrs(clips, call[p].clip_id, call[p].tracker, n)
    /\ Raise(p, "OSError")
    /\ unrepaired' = unrepaired \cup {call[p].clip_id}
    /\ UNCHANGED <<hdf5_lock, fileOpen, call, ret, pre, opCount,
                   createCalled, completed, interrupted>>
    /\ UNCHANGED <<onDisk, legacyVars>>

\* The attribute writes of add_track raise OSError after n assignments.
FaultInTrackAttrs(p) ==
    /\ pc[p] = "at_attrs"
    /\ faults < MaxFaults
    /\ faults' = faults + 1
    /\ LET track == call[p].track
       IN \E n \in 1..(Len(TrackAttrOrder(track)) - 1) :
            clips' = WriteTrackAttrs(clips, call[p].clip_id, call[p].track_id,
                                     track, n)
    /\ Raise(p, "OSError")
    /\ interrupted' = interrupted \cup {<<call[p].clip_id, call[p].track_id>>}
    /\ UNCHANGED <<hdf5_lock, fileOpen, call, ret, pre, opCount,
                   createCalled, completed>>
    /\ UNCHANGED <<onDisk, unrepaired, legacyVars>>

\* ------------------------------------------------- TrackDatabase.__init__

\* the statements of __init__ at which its h5py.File is open
CtorOpenSteps == {"ctor_group", "ctor_close"}

\* the processes that have the database file open, in a session or in __init__
HasOpen(p) == p \in fileOpen \/ pc[p] \in CtorOpenSteps

\* the first statements of the with blocks: each reads f['clips']
FirstSteps ==
    {"has_clip", "get_all_track_ids", "get_track_meta", "get_clip_meta",
     "get_track", "cc_delete", "at_create"}

\* the sessions whose open file another process truncates: they are in their
\* with block
Stale(p) == {q \in fileOpen \ {p} : pc[q] \in FirstSteps \cup WriteSteps}

\* the state in which processes have yet to construct their TrackDatabase on a
\* filename where no file exists
CtorInit ==
    /\ hdf5_lock = NoProc
    /\ fileOpen = {}
    /\ clips = EmptyDict
    /\ createCalled = {}
    /\ completed = EmptyDict
    /\ pc = [p \in Procs |-> "new"]
    /\ call = [p \in Procs |-> NoCall]
    /\ exc = [p \in Procs |-> NoErr]
    /\ ret = [p \in Procs |-> NoRet]
    /\ pre = [p \in Procs |-> NoSnapshot]
    /\ opCount = 0
    /\ faults = 0
    /\ interrupted = {}
    /\ onDisk = "missing"
    /\ unrepaired = {}
    /\ disk = NoFile
    /\ tmp = NoFile
    /\ mem = [p \in Procs |-> NewDatabase]
    /\ saved = {}

\* if not os.path.exists(database_filename)
ctor_exists(p) ==
    /\ pc[p] = "new"
    /\ pc' = [pc EXCEPT ![p] = IF onDisk = "missing" THEN "ctor_open" ELSE "idle"]
    /\ UNCHANGED <<hdf5_lock, fileOpen, clips, call, exc, ret, pre, opCount,
                   faults, createCalled, completed, interrupted, onDisk,
                   unrepaired, legacyVars>>

\* f = h5py.File(database_filename, 'w'): the file is created, or truncated
\* when another process has created it since the test.  hdf5_lock is not
\* taken.  A session or constructor that has the file open at this moment is
\* left with a handle on a truncated file; its next statement raises.
ctor_open(p) ==
    /\ pc[p] = "ctor_open"
    /\ onDisk' = "empty"
    /\ clips' = EmptyDict
    /\ completed' = EmptyDict
    /\ interrupted' = {}
    /\ unrepaired' = unrepaired \cup
                        {call[q].clip_id : q \in {r \in Stale(p) : pc[r] \in AfterNode}}
    /\ pc' = [q \in Procs |->
                 IF q = p THEN "ctor_group"
                 ELSE IF q \in Stale(p) THEN "exit"
                 ELSE IF pc[q] \in CtorOpenSteps THEN "ctor_failed"
                 ELSE pc[q]]
    /\ exc' = [q \in Procs |->
                 IF q \in Stale(p) THEN [kind |-> "OSError", at |-> pc[q]]
                 ELSE exc[q]]
    /\ UNCHANGED <<hdf5_lock, fileOpen, call, ret, pre, opCount, faults,
                   createCalled, legacyVars>>

\* f = h5py.File(database_filename, 'w') raises OSError: the HDF5 library
\* refuses to truncate a file another process has open
ctor_open_refused(p) ==
    /\ pc[p] = "ctor_open"
    /\ \E q \in Procs \ {p} : HasOpen(q)
    /\ pc' = [pc EXCEPT ![p] = "ctor_failed"]
    /\ UNCHANGED <<hdf5_lock, fileOpen, clips, call, exc, ret, pre, opCount,
                   faults, createCalled, completed, interrupted, onDisk,
                   unrepaired, legacyVars>>

\* f.create_group("clips")
ctor_group(p) ==
    /\ pc[p] = "ctor_group"
    /\ onDisk' = "clips"
    /\ pc' = [pc EXCEPT ![p] = "ctor_close"]
    /\ UNCHANGED <<hdf5_lock, fileOpen, clips, call, exc, ret, pre, opCount,
                   faults, createCalled, completed, interrupted, unrepaired,
                   legacyVars>>

\* f.close()
ctor_close(p) ==
    /\ pc[p] = "ctor_close"
    /\ pc' = [pc EXCEPT ![p] = "idle"]
    /\ UNCHANGED <<hdf5_lock, fileOpen, clips, call, exc, ret, pre, opCount,
                   faults, createCalled, completed, interrupted, onDisk,
                   unrepaired, legacyVars>>

\* clips = f['clips'] in a file that has no group 'clips': KeyError
NoClipsGroup(p) ==
    /\ pc[p] \in FirstSteps
    /\ onDisk = "empty"
    /\ Raise(p, "KeyError")
    /\ UNCHANGED <<hdf5_lock, fileOpen, clips, call, ret, pre, opCount,
                   faults, createCalled, completed, interrupted, onDisk,
                   unrepaired, legacyVars>>

\* ------------------------------------------------------------ specification

Overwrites == BOOLEAN

HasClipCall(p) ==
    \E c \in Clips :
        Enter(p, Call("has_clip", c, 0, NoTracker, FALSE, NoData, NoTrack))

CreateClipCall(p) ==
    \E c \in Clips, tr \in Trackers \cup {NoTracker}, ow \in Overwrites :
        Enter(p, Call("create_clip", c, 0, tr, ow, NoData, NoTrack))

GetAllTrackIdsCall(p) ==
    Enter(p, Call("get_all_track_ids", 0, 0, NoTracker, FALSE, NoData, NoTrack))

GetTrackMetaCall(p) ==
    \E c \in Clips, t \in Tracks :
        Enter(p, Call("get_track_meta", c, t, NoTracker, FALSE, NoData, NoTrack))

GetClipMetaCall(p) ==
    \E c \in Clips :
        Enter(p, Call("get_clip_meta", c, 0, NoTracker, FALSE, NoData, NoTrack))

GetTrackCall(p) ==
    \E c \in Clips, t \in Tracks, b \in SliceBounds :
        Enter(p, [Call("get_track", c, t, NoTracker, FALSE, NoData, NoTrack)
                     EXCEPT !.start_frame = b[1], !.end_frame = b[2]])

AddTrackCall(p) ==
    \E c \in Clips, t \in Tracks, a \in Arrays, tr \in TrackRecords \cup {NoTrack} :
        Enter(p, Call("add_track", c, t, NoTracker, FALSE, a, tr))

Next ==
    \E p \in Procs :
        \/ HasClipCall(p)
        \/ CreateClipCall(p)
        \/ GetAllTrackIdsCall(p)
        \/ GetTrackMetaCall(p)
        \/ GetClipMetaCall(p)
        \/ GetTrackCall(p)
        \/ AddTrackCall(p)
        \/ Open(p)
        \/ OpenFail(p)
        \/ Close(p)
        \/ CloseFail(p)
        \/ Release(p)
        \/ has_clip(p)
        \/ get_all_track_ids(p)
        \/ get_track_meta(p)
        \/ get_clip_meta(p)
        \/ get_track(p)
        \/ cc_delete(p)
        \/ cc_group(p)
        \/ cc_attrs(p)
        \/ cc_flush(p)
        \/ cc_finish(p)
        \/ at_create(p)
        \/ at_copy(p)
        \/ at_attrs(p)
        \/ at_flush(p)
        \/ at_finish(p)
        \/ Fault(p)
        \/ FaultInCopy(p)
        \/ FaultInClipAttrs(p)
        \/ FaultInTrackAttrs(p)

Spec == Init /\ [][Next]_vars

\* the constructors of the processes, together with the operations a run
\* starts with: create_clip and has_clip
CtorNext ==
    \E p \in Procs :
        \/ ctor_exists(p)
        \/ ctor_open(p)
        \/ ctor_open_refused(p)
        \/ ctor_group(p)
        \/ ctor_close(p)
        \/ NoClipsGroup(p)
        \/ HasClipCall(p)
        \/ CreateClipCall(p)
        \/ Open(p)
        \/ OpenFail(p)
        \/ Close(p)
        \/ CloseFail(p)
        \/ Release(p)
        \/ has_clip(p)
        \/ cc_delete(p)
        \/ cc_group(p)
        \/ cc_attrs(p)
        \/ cc_flush(p)
        \/ cc_finish(p)
        \/ Fault(p)
        \/ FaultInClipAttrs(p)

CtorSpec == CtorInit /\ [][CtorNext]_vars

\* ------------------------------------------- track-extractor.py, the pickle
\* store: TrackDatabase of track-extractor.py keeps the whole database in one
\* pickle file that save() replaces; CPTVTrackExtractor.process_file loads it,
\* adds a clip and saves it.  The processes share the file and take no lock.

\* the variables of the HDF5 store, which the pickle store leaves alone
hdf5Vars == <<hdf5_lock, fileOpen, clips, pre, createCalled, completed,
              interrupted, onDisk, unrepaired>>

\* the database file an earlier run saved: revision 1 with its first clip
SavedBefore ==
    [exists |-> TRUE, complete |-> TRUE, revision |-> 1, clips |-> {NumClips}]

\* load(): the object after reading file, or empty at revision 0
Loaded(db, file) ==
    IF file.exists
    THEN [db EXCEPT !.revision = file.revision, !.clips = file.clips]
    ELSE [db EXCEPT !.revision = 0, !.clips = {}]

\* the pickle save() dumps: save_object
SaveObject(db) ==
    [exists |-> TRUE, complete |-> TRUE, revision |-> db.revision,
     clips |-> db.clips]

\* a file opened with 'wb' whose dump did not end
Truncated == [exists |-> TRUE, complete |-> FALSE, revision |-> 0, clips |-> {}]

\* os.rename onto an existing file: replaces it (POSIX) or raises
\* FileExistsError (Windows)
Platforms == {"posix", "windows"}

\* the statements of save() that use the file system
SaveSteps == {"s_exists", "s_check", "s_dump", "s_remove", "s_rename"}

\* every process has constructed its TrackDatabase (__init__ calls load()) on
\* a filename without a file, or on the file an earlier run saved
LegacyInit ==
    /\ hdf5_lock = NoProc
    /\ fileOpen = {}
    /\ clips = EmptyDict
    /\ createCalled = {}
    /\ completed = EmptyDict
    /\ pc = [p \in Procs |-> "l_idle"]
    /\ call = [p \in Procs |-> NoCall]
    /\ exc = [p \in Procs |-> NoErr]
    /\ ret = [p \in Procs |-> NoRet]
    /\ pre = [p \in Procs |-> NoSnapshot]
    /\ opCount = 0
    /\ faults = 0
    /\ interrupted = {}
    /\ onDisk = "missing"
    /\ unrepaired = {}
    /\ tmp = NoFile
    /\ disk \in {NoFile, SavedBefore}
    /\ mem = [p \in Procs |-> Loaded(NewDatabase, disk)]
    /\ saved = IF disk.exists THEN {<<NoProc, 0>>} ELSE {}

\* a statement of process_file raises: the exception reaches its caller
LRaise(p, kind) ==
    /\ exc' = [exc EXCEPT ![p] = [kind |-> kind, at |-> pc[p]]]
    /\ pc' = [pc EXCEPT ![p] = "l_idle"]

\* CPTVTrackExtractor.process_file(full_path, tag, overwrite) is called
ProcessFileCall(p) ==
    /\ pc[p] = "l_idle"
    /\ opCount < MaxOps
    /\ \E c \in Clips, ow \in Overwrites :
          call' = [call EXCEPT ![p] =
                      Call("process_file", c, 0, NoTracker, ow, NoData, NoTrack)]
    /\ opCount' = opCount + 1
    /\ pc' = [pc EXCEPT ![p] = "l_exists"]
    /\ exc' = [exc EXCEPT ![p] = NoErr]
    /\ ret' = [ret EXCEPT ![p] = NoRet]
    /\ UNCHANGED <<faults, legacyVars, hdf5Vars>>

\* load(): if os.path.exists(self.filename), else the empty database
load_exists(p) ==
    /\ pc[p] = "l_exists"
    /\ IF disk.exists
       THEN pc' = [pc EXCEPT ![p] = "l_read"] /\ UNCHANGED mem
       ELSE /\ mem' = [mem EXCEPT ![p] = Loaded(@, NoFile)]
            /\ pc' = [pc EXCEPT ![p] = "l_seen"]
    /\ UNCHANGED <<call, exc, ret, opCount, faults, disk, tmp, saved, hdf5Vars>>

\* load(): save_object = pickle.load(open(self.filename, 'rb')) and the three
\* assignments from it
load_read(p) ==
    /\ pc[p] = "l_read"
    /\ IF ~disk.exists
       THEN LRaise(p, "FileNotFoundError") /\ UNCHANGED mem
       ELSE IF ~disk.complete
       THEN LRaise(p, "EOFError") /\ UNCHANGED mem
       ELSE /\ mem' = [mem EXCEPT ![p] = Loaded(@, disk)]
            /\ pc' = [pc EXCEPT ![p] = "l_seen"]
            /\ UNCHANGED exc
    /\ UNCHANGED <<call, ret, opCount, faults, disk, tmp, saved, hdf5Vars>>

\* process_file: a file the database has is skipped unless overwrite; else
\* the tracker runs and self.db.add_clip(filename, tracker.stats)
add_clip(p) ==
    /\ pc[p] = "l_seen"
    /\ IF call[p].clip_id \in mem[p].clips /\ ~call[p].overwrite
       THEN /\ pc' = [pc EXCEPT ![p] = "l_idle"]
            /\ ret' = [ret EXCEPT ![p] = [kind |-> "skipped", val |-> <<>>]]
            /\ UNCHANGED mem
       ELSE /\ mem' = [mem EXCEPT ![p].clips = @ \cup {call[p].clip_id}]
            /\ pc' = [pc EXCEPT ![p] = "s_exists"]
            /\ UNCHANGED ret
    /\ UNCHANGED <<call, exc, opCount, faults, disk, tmp, saved, hdf5Vars>>

\* save(): if os.path.exists(self.filename)
save_exists(p) ==
    /\ pc[p] = "s_exists"
    /\ mem' = [mem EXCEPT ![p].sawFile = disk.exists]
    /\ pc' = [pc EXCEPT ![p] = IF disk.exists THEN "s_check" ELSE "s_revision"]
    /\ UNCHANGED <<call, exc, ret, opCount, faults, disk, tmp, saved, hdf5Vars>>

\* save(): db = pickle.load(open(self.filename, 'rb')); a revision other than
\* self.revision raises "Database modified by another program."
save_check(p) ==
    /\ pc[p] = "s_check"
    /\ IF ~disk.exists
       THEN LRaise(p, "FileNotFoundError")
       ELSE IF ~disk.complete
       THEN LRaise(p, "EOFError")
       ELSE IF disk.revision # mem[p].revision
       THEN LRaise(p, "Database modified by another program.")
       ELSE pc' = [pc EXCEPT ![p] = "s_revision"] /\ UNCHANGED exc
    /\ UNCHANGED <<call, ret, opCount, faults, legacyVars, hdf5Vars>>

\* save(): self.revision = self.revision + 1
save_revision(p) ==
    /\ pc[p] = "s_revision"
    /\ mem' = [mem EXCEPT ![p].revision = @ + 1]
    /\ pc' = [pc EXCEPT ![p] = "s_dump"]
    /\ UNCHANGED <<call, exc, ret, opCount, faults, disk, tmp, saved, hdf5Vars>>

\* save(): pickle.dump(save_object, open(self.filename+".tmp", 'wb'))
save_dump(p) ==
    /\ pc[p] = "s_dump"
    /\ tmp' = SaveObject(mem[p])
    /\ pc' = [pc EXCEPT ![p] = "s_remove"]
    /\ UNCHANGED <<call, exc, ret, opCount, faults, disk, mem, saved, hdf5Vars>>

\* save(): os.remove(self.filename): FileNotFoundError when there is no file
save_remove(p) ==
    /\ pc[p] = "s_remove"
    /\ IF ~disk.exists
       THEN LRaise(p, "FileNotFoundError") /\ UNCHANGED disk
       ELSE /\ disk' = NoFile
            /\ pc' = [pc EXCEPT ![p] = "s_rename"]
            /\ UNCHANGED exc
    /\ UNCHANGED <<call, ret, opCount, faults, tmp, mem, saved, hdf5Vars>>

\* save(): os.rename(self.filename + ".tmp", self.filename), and save() and
\* process_file return
save_rename(p) ==
    /\ pc[p] = "s_rename"
    /\ \E platform \in Platforms :
          IF ~tmp.exists
          THEN LRaise(p, "FileNotFoundError") /\ UNCHANGED <<disk, tmp, saved, ret>>
          ELSE IF disk.exists /\ platform = "windows"
          THEN LRaise(p, "FileExistsError") /\ UNCHANGED <<disk, tmp, saved, ret>>
          ELSE /\ disk' = tmp
               /\ tmp' = NoFile
               /\ saved' = saved \cup {<<p, mem[p].revision - 1>>}
               /\ ret' = [ret EXCEPT ![p] = [kind |-> "saved", val |-> <<>>]]
               /\ pc' = [pc EXCEPT ![p] = "l_idle"]
               /\ UNCHANGED exc
    /\ UNCHANGED <<call, opCount, faults, mem, hdf5Vars>>

\* A file-system statement of save() raises OSError before it changes a file.
SaveFault(p) ==
    /\ pc[p] \in SaveSteps
    /\ faults < MaxFaults
    /\ faults' = faults + 1
    /\ LRaise(p, "OSError")
    /\ UNCHANGED <<call, ret, opCount, legacyVars, hdf5Vars>>

\* The dump raises OSError after open(..., 'wb') truncated the temporary file.
FaultInDump(p) ==
    /\ pc[p] = "s_dump"
    /\ faults < MaxFaults
    /\ faults' = faults + 1
    /\ tmp' = Truncated
    /\ LRaise(p, "OSError")
    /\ UNCHANGED <<call, ret, opCount, disk, mem, saved, hdf5Vars>>

LegacyNext ==
    \E p \in Procs :
        \/ ProcessFileCall(p)
        \/ load_exists(p)
        \/ load_read(p)
        \/ add_clip(p)
        \/ save_exists(p)
        \/ save_check(p)
        \/ save_revision(p)
        \/ save_dump(p)
        \/ save_remove(p)
        \/ save_rename(p)
        \/ SaveFault(p)
        \/ FaultInDump(p)

LegacySpec == LegacyInit /\ [][LegacyNext]_vars

\* ------------------------------------------------------------------- claims

\* operation name of process p has left its with block and is in __exit__
Ended(p, name) == pc[p] \in {"exit", "release"} /\ call[p].name = name

\* ... without an exception: the value it returns is ret[p]
Returned(p, name) == Ended(p, name) /\ exc[p] = NoErr

\* ... with an exception
Raised(p, name) == Ended(p, name) /\ exc[p] # NoErr

\* C1: at no instant do two sessions have the backing file open.
C1_MutualExclusion == Cardinality(fileOpen) <= 1

\* a session has the file open after an earlier session ended, while the
\* other processes are kept out
C1_Witness ==
    \E p \in Procs :
        /\ fileOpen = {p}
        /\ hdf5_lock = p
        /\ opCount >= 2
        /\ \E q \in Procs \ {p} : pc[q] = "idle"

\* C2: an operation that has returned or raised does not hold the lock.
C2_LockReleased == \A p \in Procs : pc[p] = "idle" => hdf5_lock # p

\* C3: has_clip returns true exactly when the clip has a node with the
\* 'finished' attribute, and false for a clip create_clip was never called on.
C3_HasClip ==
    \A p \in Procs :
        Returned(p, "has_clip") =>
            LET c == call[p].clip_id
            IN /\ ret[p].val =
                    (c \in DOMAIN clips /\ "finished" \in DOMAIN clips[c].attrs)
               /\ c \notin createCalled => ret[p].val = FALSE

\* has_clip returns false for a clip whose node exists
C3_Witness ==
    \E p \in Procs :
        /\ Returned(p, "has_clip")
        /\ call[p].clip_id \in DOMAIN clips
        /\ ret[p].val = FALSE

\* the default create_clip stores for an optional key the tracker lacks
DefaultOf(key) ==
    CASE key = "confidence" -> "0.0"
      [] key \in {"trap", "event"} -> ""
      [] OTHER -> "0"

OptionalKeys ==
    {"confidence", "trap", "event", "average_background_delta", "mean_temp",
     "max_temp", "min_temp"}

\* the optional keys a call of create_clip supplies no value for
Unsupplied(tracker) ==
    IF tracker = NoTracker THEN OptionalKeys
    ELSE {k \in OptionalKeys :
             k \notin DOMAIN tracker.stats \/ tracker.stats[k] \in Falsy}

C5_RoundTrip ==
    \A p \in Procs :
        (/\ Ended(p, "get_track")
         /\ call[p].start_frame = NoBound
         /\ call[p].end_frame = NoBound
         /\ <<call[p].clip_id, call[p].track_id>> \in DOMAIN completed) =>
            /\ exc[p] = NoErr
            /\ ret[p].val = completed[<<call[p].clip_id, call[p].track_id>>].data

\* C6: create_clip(c, overwrite=True) on an existing clip leaves c without a
\* track and without an attribute from before the call, lists no track of c,
\* and leaves every other clip as it was.
C6_OverwriteReplaces ==
    \A p \in Procs :
        (/\ Returned(p, "create_clip")
         /\ call[p].overwrite
         /\ call[p].clip_id \in DOMAIN pre[p].clips) =>
            LET c == call[p].clip_id
                tracker == call[p].tracker
                listed == AllTrackIds(clips)
            IN /\ DOMAIN clips[c].tracks = {}
               /\ \A i \in 1..Len(listed) : listed[i][1] # c
               /\ \A k \in DOMAIN clips[c].attrs \ {"finished"} :
                     /\ tracker # NoTracker
                     /\ clips[c].attrs[k] = ClipAttrValue(tracker, k)
               /\ \A d \in Clips \ {c} :
                     /\ d \in DOMAIN clips <=> d \in DOMAIN pre[p].clips
                     /\ d \in DOMAIN clips => clips[d] = pre[p].clips[d]

\* an overwrite has completed on a clip that had a track and attributes,
\* while another clip exists
C6_Witness ==
    \E p \in Procs :
        /\ Returned(p, "create_clip")
        /\ call[p].overwrite
        /\ call[p].clip_id \in DOMAIN pre[p].clips
        /\ DOMAIN pre[p].clips[call[p].clip_id].tracks # {}
        /\ \E d \in DOMAIN clips : d # call[p].clip_id

\* C7: get_all_track_ids returns exactly the pairs add_track has completed
\* for, each once.
C7_ListsCompleted ==
    \A p \in Procs :
        Returned(p, "get_all_track_ids") =>
            /\ {ret[p].val[i] : i \in 1..Len(ret[p].val)} = DOMAIN completed
            /\ Len(ret[p].val) = Cardinality(DOMAIN completed)

\* C8: a clip has_clip reports holds no dataset whose array copy or attribute
\* write was interrupted.
C8_FinishedImpliesComplete ==
    \A x \in interrupted : ~HasRecord(clips, x[1])

\* the statements of add_track after the creation of the dataset
AfterDataset == {"at_copy", "at_attrs", "at_flush", "at_finish"}

\* C9: when add_track raises after it created the dataset and before it
\* wrote 'finished', has_clip of its clip is what it was before the call.
C9_FaultKeepsMarker ==
    \A p \in Procs :
        (Raised(p, "add_track") /\ exc[p].at \in AfterDataset) =>
            HasRecord(clips, call[p].clip_id)
                = HasRecord(pre[p].clips, call[p].clip_id)

\* add_track has raised after it created a dataset in a clip that was never
\* finished
C9_Witness ==
    \E p \in Procs :
        /\ Raised(p, "add_track")
        /\ exc[p].at \in AfterDataset
        /\ HasTrack(clips, call[p].clip_id, call[p].track_id)
        /\ ~HasRecord(clips, call[p].clip_id)

\* C10 as stated: when create_clip or add_track raises inside its with block,
\* has_clip of every clip is what it was before the call and a clip that was
\* finished has the tracks it had.
C10_FailureAtomic ==
    \A p \in Procs :
        (Raised(p, "create_clip") \/ Raised(p, "add_track")) =>
            \A c \in Clips :
                /\ HasRecord(clips, c) = HasRecord(pre[p].clips, c)
                /\ HasRecord(pre[p].clips, c) =>
                      \A t \in DOMAIN pre[p].clips[c].tracks :
                          /\ t \in DOMAIN clips[c].tracks
                          /\ clips[c].tracks[t] = pre[p].clips[c].tracks[t]

\* clip d of the file is what it was when the session of p opened
SameClip(p, d) ==
    /\ d \in DOMAIN clips <=> d \in DOMAIN pre[p].clips
    /\ d \in DOMAIN clips => clips[d] = pre[p].clips[d]

\* C10 amended: when create_clip or add_track raises inside its with block,
\* every clip but the call's is unchanged.  After add_track raised, has_clip of
\* its clip and the clip's attributes and earlier datasets are unchanged; at
\* most a dataset of the call's track was added.  After create_clip raised, its
\* clip is unchanged, or has_clip of it is false and it holds no track.
C10_FailureLeaves ==
    \A p \in Procs :
        (Raised(p, "create_clip") \/ Raised(p, "add_track")) =>
            LET c == call[p].clip_id
                old == pre[p].clips
            IN /\ \A d \in Clips \ {c} : SameClip(p, d)
               /\ call[p].name = "add_track" =>
                     /\ HasRecord(clips, c) = HasRecord(old, c)
                     /\ c \in DOMAIN clips <=> c \in DOMAIN old
                     /\ c \in DOMAIN clips =>
                           /\ clips[c].attrs = old[c].attrs
                           /\ DOMAIN clips[c].tracks \subseteq
                                 DOMAIN old[c].tracks \cup {call[p].track_id}
                           /\ \A t \in DOMAIN old[c].tracks :
                                 /\ t \in DOMAIN clips[c].tracks
                                 /\ clips[c].tracks[t] = old[c].tracks[t]
               /\ call[p].name = "create_clip" =>
                     \/ SameClip(p, c)
                     \/ /\ ~HasRecord(clips, c)
                        /\ c \in DOMAIN clips => DOMAIN clips[c].tracks = {}

\* create_clip has raised on a finished clip with a track, and has_clip of
\* the clip is now false
C10_Witness ==
    \E p \in Procs :
        /\ Raised(p, "create_clip")
        /\ HasRecord(pre[p].clips, call[p].clip_id)
        /\ DOMAIN pre[p].clips[call[p].clip_id].tracks # {}
        /\ ~HasRecord(clips, call[p].clip_id)

\* create_clip(c, overwrite=True) of some process deletes the node of c in
\* this step
OverwriteDeletes(c) ==
    \E p \in Procs :
        /\ pc[p] = "cc_delete"
        /\ pc'[p] = "cc_group"
        /\ call[p].clip_id = c
        /\ call[p].overwrite

\* C11: a clip that has no node gets its node without the 'finished'
\* attribute, and a clip has_clip reports keeps its node and its 'finished'
\* attribute in every step but the deletion of create_clip(c, overwrite=True).
C11_Lifecycle ==
    [][\A c \in Clips :
          /\ (c \notin DOMAIN clips /\ c \in DOMAIN clips') => ~HasRecord(clips', c)
          /\ (HasRecord(clips, c) /\ ~HasRecord(clips', c)) => OverwriteDeletes(c)]_vars

\* C12: create_clip(c, overwrite=False) on a clip id that has a node raises no
\* error of its own (an I/O failure aside) and leaves the node, its attributes,
\* its marker and its tracks as they were.
C12_SilentPreserve ==
    \A p \in Procs :
        (/\ Ended(p, "create_clip")
         /\ ~call[p].overwrite
         /\ call[p].clip_id \in DOMAIN pre[p].clips
         /\ exc[p].kind # "OSError") =>
            /\ exc[p] = NoErr
            /\ SameClip(p, call[p].clip_id)

\* the id path a call names does not exist in the file cl
MissingPath(cl, c) ==
    CASE c.name \in {"add_track", "get_clip_meta"} -> c.clip_id \notin DOMAIN cl
      [] c.name \in {"get_track", "get_track_meta"} ->
            ~HasTrack(cl, c.clip_id, c.track_id)
      [] OTHER -> FALSE

\* C13: add_track on a clip id without a node, and get_track, get_track_meta
\* and get_clip_meta on an id path that does not exist, end with an exception
\* and without a value; the file is what it was when the session opened, and
\* __exit__, when its close succeeds, leaves the file closed and the lock free.
C13_MissingIdsFail ==
    [][\A p \in Procs :
          (/\ pc[p] \in {"exit", "release"}
           /\ MissingPath(pre[p].clips, call[p])) =>
              /\ exc[p] # NoErr
              /\ ret[p] = NoRet
              /\ clips = pre[p].clips
              /\ (pc'[p] = "idle" /\ faults' = faults) =>
                    /\ hdf5_lock' = NoProc
                    /\ p \notin fileOpen'
                    /\ clips' = pre[p].clips]_vars

\* add_track has raised KeyError on a clip id without a node, in a database
\* that holds another clip, and its session has closed the file
C13_Witness ==
    \E p \in Procs :
        /\ pc[p] = "release"
        /\ call[p].name = "add_track"
        /\ exc[p].kind = "KeyError"
        /\ call[p].clip_id \notin DOMAIN clips
        /\ DOMAIN clips # {}

\* C14: a process that has the database file open, in a session or in the
\* constructor that creates the database, holds the lock, and no other process
\* has the file open at that moment.
C14_OpenUnderLock ==
    \A p \in Procs :
        HasOpen(p) =>
            /\ hdf5_lock = p
            /\ \A q \in Procs \ {p} : ~HasOpen(q)

\* C15: every dataset an add_track with a track record has completed holds a
\* 'mass_history' of as many entries, and a 'bounds_history' of as many rows of
\* 4 values, as the dataset has frames.
C15_HistoryLengths ==
    \A x \in DOMAIN completed :
        LET dset == clips[x[1]].tracks[x[2]]
            frames == dset.shape[1]
        IN "mass_history" \in DOMAIN dset.attrs =>
              /\ Len(dset.attrs["mass_history"]) = frames
              /\ Len(dset.attrs["bounds_history"]) = frames
              /\ \A i \in 1..Len(dset.attrs["bounds_history"]) :
                    Len(dset.attrs["bounds_history"][i]) = 4

\* the frames of data with a 0-based index i, start <= i < end, where a bound
\* of None stands for the first frame and for the frame count
FramesBetween(data, start_frame, end_frame) ==
    LET F == Len(data)
        lo == IF start_frame.none THEN 0 ELSE start_frame.v
        hi == IF end_frame.none \/ end_frame.v > F THEN F ELSE end_frame.v
    IN [k \in 1..(IF hi > lo THEN hi - lo ELSE 0) |-> data[lo + k]]

\* C16: get_track(c, t, s, e) on a track add_track has completed returns,
\* without an error, the frames s up to e of the stored array: all of them
\* without bounds, an empty array when s >= e or s is beyond the last frame.
C16_FrameSlice ==
    \A p \in Procs :
        (/\ Ended(p, "get_track")
         /\ <<call[p].clip_id, call[p].track_id>> \in DOMAIN completed) =>
            /\ exc[p] = NoErr
            /\ ret[p].val =
                  FramesBetween(completed[<<call[p].clip_id, call[p].track_id>>].data,
                                call[p].start_frame, call[p].end_frame)

\* C17: a clip whose create_clip raised after it created the node is not
\* reported by has_clip until a create_clip(c, overwrite=True) completes.
C17_InvisibleUntilRepaired ==
    \A c \in unrepaired : ~HasRecord(clips, c)

\* C18: of the save() calls of two processes that loaded the same revision, at
\* most one replaces the file.
C18_LostUpdateDetected ==
    \A x \in saved, y \in saved :
        (x[1] \in Procs /\ y[1] \in Procs /\ x[2] = y[2]) => x = y

\* C19: once a database was saved, a complete snapshot is at the database
\* filename at every instant, during a save() and after one that raised.
C19_CrashSafe == saved # {} => (disk.exists /\ disk.complete)

\* the statements of save()
InSave == SaveSteps \cup {"s_revision"}

\* C20: load() without a file gives the empty database at revision 0.  A
\* save() that found no file and met no I/O failure returns without an error
\* and leaves the file at revision 1 with the added clip; a save() that
\* returns leaves the file at the revision the object has.
C20_FirstSave ==
    [][\A p \in Procs :
          /\ (pc[p] = "l_exists" /\ pc'[p] = "l_seen") =>
                (mem'[p].revision = 0 /\ mem'[p].clips = {})
          /\ (pc[p] \in InSave /\ pc'[p] = "l_idle" /\ exc'[p].kind # "OSError") =>
                /\ ~mem[p].sawFile =>
                      /\ exc'[p] = NoErr
                      /\ disk'.exists
                      /\ disk'.revision = 1
                      /\ call[p].clip_id \in disk'.clips
                /\ exc'[p] = NoErr =>
                      /\ disk'.exists
                      /\ disk'.revision = mem'[p].revision]_vars

=============================================================================
